---------------------------- MODULE Spec2Model ----------------------------
(***************************************************************************)
(* The mzML chromatogram viewer (app_stable.py): the loaded experiment and *)
(* the three extraction functions that derive views from it.               *)
(*                                                                         *)
(* Numbers.  m/z values, retention times and intensities are floating      *)
(* point in the program; here they are integers in a fixed unit (one unit  *)
(* of m/z is 0.01 in the worked example of the specification), so that     *)
(* abs(mz - target_mass) <= tolerance is exact integer arithmetic.         *)
(*                                                                         *)
(* Python values.  A list is PyList(s) for a sequence s, None is PyNone;   *)
(* a returned pair (a, b) is the tuple <<a, b>>.                           *)
(***************************************************************************)
EXTENDS Integers, Sequences, FiniteSets, Bags, TLC

(***************************************************************************)
(* Bounds of the model.                                                    *)
(***************************************************************************)
\* the most spectra in an enumerated experiment
MaxSpectra == 2
\* the most peaks, over all its spectra, in an enumerated experiment
MaxPeaks == 2
\* the most chromatogram records in an enumerated experiment
MaxChromatograms == 2
\* the most data points, over all its records, in an enumerated experiment
MaxChromPoints == 2
\* the largest N of an enumerated top-N view, besides the app's own
MaxTopN == 3

\* the value domains of the enumerated experiments and queries
MzValues == {1, 3}
IntensityValues == {1, 2}
RtValues == {1, 2}
TargetMasses == {1, 2, 3}
Tolerances == {0, 1}

(***************************************************************************)
(* Python values                                                           *)
(***************************************************************************)
PyNone == [type |-> "NoneType"]
PyList(s) == [type |-> "list", items |-> s]
\* a numpy array, as the binding's get_peaks() hands out
PyArray(s) == [type |-> "ndarray", items |-> s]

abs(x) == IF x < 0 THEN -x ELSE x

Min(a, b) == IF a <= b THEN a ELSE b

RECURSIVE sum(_)
\* Python's sum() of a list
sum(s) == IF s = <<>> THEN 0 ELSE Head(s) + sum(Tail(s))

\* Python's zip() of two sequences: pairs up to the shorter one
zip(a, b) == [i \in 1 .. Min(Len(a), Len(b)) |-> <<a[i], b[i]>>]

(***************************************************************************)
(* The experiment: spectra (a retention time and two parallel arrays) and  *)
(* chromatogram records (two parallel arrays).                             *)
(***************************************************************************)
Spectrum(rt, mz, intensity) == [rt |-> rt, mz |-> mz, intensity |-> intensity]

Chromatogram(rt, intensity) == [rt |-> rt, intensity |-> intensity]

MSExperiment(spectra, chromatograms) ==
    [spectra |-> spectra, chromatograms |-> chromatograms]

VARIABLES
    experiment,   \* the loaded MSExperiment
    peaks_api,    \* what get_peaks() of the binding returns: "tuple" or "list"
    ret,          \* the last call: its function, arguments and returned value
    noted,        \* history: an earlier extract_eic call kept for comparison,
                  \* and whether another call has run since
    loaded,       \* history: the experiment as load_mzml_file returned it
    disk,         \* the working directory: what is at each fixed path
    kaleido_installed, \* whether "import kaleido" succeeds in this environment
    widgets,      \* the page of the browser session: uploaders, inputs, button
    session_logos,\* history: the logos uploaded in the current browser session
    run,          \* the current execution of the script, top to bottom
    loads         \* the invocations of load_mzml_file in progress

\* what outlasts one execution of the script
page_vars == <<disk, kaleido_installed, widgets, session_logos, loads>>

\* what the script keeps outside the extraction calls
script_vars == <<page_vars, run>>

vars == <<experiment, peaks_api, ret, noted, loaded, script_vars>>

\* spectrum.get_peaks(): a tuple of two arrays, or a list of peak objects
spectrum_get_peaks(spectrum) ==
    IF peaks_api = "tuple"
    THEN [type |-> "tuple", a |-> spectrum.mz, b |-> spectrum.intensity]
    ELSE [type |-> "list",
          items |-> [i \in 1 .. Len(spectrum.mz) |->
                        [mz |-> spectrum.mz[i],
                         intensity |-> spectrum.intensity[i]]]]

\* chrom.get_peaks(): a tuple of two arrays, or a list of peak objects
chrom_get_peaks(chrom) ==
    IF peaks_api = "tuple"
    THEN [type |-> "tuple", a |-> chrom.rt, b |-> chrom.intensity]
    ELSE [type |-> "list",
          items |-> [i \in 1 .. Len(chrom.rt) |->
                        [rt |-> chrom.rt[i],
                         intensity |-> chrom.intensity[i]]]]

\* mz_values of a spectrum's peaks, by either branch of isinstance(peaks, tuple)
mz_values(peaks) ==
    IF peaks.type = "tuple"
    THEN peaks.a
    ELSE [i \in 1 .. Len(peaks.items) |-> peaks.items[i].mz]

\* intensity_values of a spectrum's peaks, by either branch
intensity_values(peaks) ==
    IF peaks.type = "tuple"
    THEN peaks.b
    ELSE [i \in 1 .. Len(peaks.items) |-> peaks.items[i].intensity]

(***************************************************************************)
(* extract_eic                                                             *)
(***************************************************************************)
\* the filter with the boundaries of the window left out
in_window_open(mz, target_mass, tolerance) == abs(mz - target_mass) < tolerance

\* the comparison the wrong way round
in_window_inverted(mz, target_mass, tolerance) == abs(mz - target_mass) >= tolerance

\* the filter of the list comprehension
in_window(mz, target_mass, tolerance) == abs(mz - target_mass) <= tolerance

RECURSIVE matching_of(_, _, _)
\* the list comprehension over zip(mz_values, intensity_values)
matching_of(pairs, target_mass, tolerance) ==
    IF pairs = <<>> THEN <<>>
    ELSE (IF in_window(Head(pairs)[1], target_mass, tolerance)
          THEN <<Head(pairs)[2]>> ELSE <<>>)
         \o matching_of(Tail(pairs), target_mass, tolerance)

matching_intensities(spectrum, target_mass, tolerance) ==
    LET peaks == spectrum_get_peaks(spectrum)
    IN  matching_of(zip(mz_values(peaks), intensity_values(peaks)),
                    target_mass, tolerance)

\* the lists of the call before, as lists made once and shared by every
\* call would be
eic_locals_shared ==
    IF ret.fn = "extract_eic"
    THEN [times |-> ret.value[1].items, intensities |-> ret.value[2].items]
    ELSE [times |-> <<>>, intensities |-> <<>>]

\* times = [] and intensities = [] on entry
eic_locals == [times |-> <<>>, intensities |-> <<>>]

\* an iteration that puts out nothing for a spectrum without a match
eic_iteration_sparse(acc, spectrum, target_mass, tolerance) ==
    LET rt == spectrum.rt
        m  == matching_intensities(spectrum, target_mass, tolerance)
    IN  IF m # <<>>
        THEN [times |-> Append(acc.times, rt),
              intensities |-> Append(acc.intensities, sum(m))]
        ELSE acc

\* an iteration that adds to the point of a retention time already put out
eic_iteration_by_time(acc, spectrum, target_mass, tolerance) ==
    LET rt == spectrum.rt
        m  == matching_intensities(spectrum, target_mass, tolerance)
    IN  IF \E i \in 1 .. Len(acc.times) : acc.times[i] = rt
        THEN LET i == CHOOSE k \in 1 .. Len(acc.times) : acc.times[k] = rt
             IN  [acc EXCEPT !.intensities[i] = @ + sum(m)]
        ELSE [times |-> Append(acc.times, rt),
              intensities |-> Append(acc.intensities, sum(m))]

\* one iteration of the loop over the spectra
eic_iteration(acc, spectrum, target_mass, tolerance) ==
    LET rt == spectrum.rt
        m  == matching_intensities(spectrum, target_mass, tolerance)
    IN  IF m # <<>>
        THEN [times |-> Append(acc.times, rt),
              intensities |-> Append(acc.intensities, sum(m))]
        ELSE [times |-> Append(acc.times, rt),
              intensities |-> Append(acc.intensities, 0)]

RECURSIVE eic_loop_reversed(_, _, _, _)
\* the loop taking the spectra last to first
eic_loop_reversed(acc, spectra, target_mass, tolerance) ==
    IF spectra = <<>> THEN acc
    ELSE eic_loop_reversed(
             eic_iteration(acc, spectra[Len(spectra)], target_mass, tolerance),
             SubSeq(spectra, 1, Len(spectra) - 1), target_mass, tolerance)

RECURSIVE eic_loop(_, _, _, _)
eic_loop(acc, spectra, target_mass, tolerance) ==
    IF spectra = <<>> THEN acc
    ELSE eic_loop(eic_iteration(acc, Head(spectra), target_mass, tolerance),
                  Tail(spectra), target_mass, tolerance)

\* extract_eic with the guard "if len(spectra) == 0: return None, None"
extract_eic_none_if_empty(exp, target_mass, tolerance) ==
    LET spectra == exp.spectra
        acc     == eic_loop(eic_locals, spectra, target_mass, tolerance)
    IN  IF Len(spectra) = 0
        THEN <<PyNone, PyNone>>
        ELSE <<PyList(acc.times), PyList(acc.intensities)>>

extract_eic(exp, target_mass, tolerance) ==
    LET spectra == exp.spectra
        acc     == eic_loop(eic_locals, spectra, target_mass, tolerance)
    IN  <<PyList(acc.times), PyList(acc.intensities)>>

(***************************************************************************)
(* extract_chromatogram                                                    *)
(***************************************************************************)
\* the last record instead of the first
chrom_record_last(chromatograms) == chromatograms[Len(chromatograms)]

\* the record the function reads: chromatograms[0]
chrom_record(chromatograms) == chromatograms[1]

\* the function handing out two empty lists for a file without records
extract_chromatogram_empty_lists(exp) ==
    LET chromatograms == exp.chromatograms
    IN  IF Len(chromatograms) = 0
        THEN <<PyList(<<>>), PyList(<<>>)>>
        ELSE LET peaks == chrom_get_peaks(chrom_record(chromatograms))
             IN  <<PyArray(peaks.a), PyArray(peaks.b)>>

extract_chromatogram(exp) ==
    LET chromatograms == exp.chromatograms
    IN  IF Len(chromatograms) = 0
        THEN <<PyNone, PyNone>>
        ELSE LET chrom == chrom_record(chromatograms)
                 peaks == chrom_get_peaks(chrom)
             IN  IF peaks.type = "tuple"
                 THEN <<PyArray(peaks.a), PyArray(peaks.b)>>
                 ELSE <<PyList([i \in 1 .. Len(peaks.items) |->
                                   peaks.items[i].rt]),
                        PyList([i \in 1 .. Len(peaks.items) |->
                                   peaks.items[i].intensity])>>

(***************************************************************************)
(* extract_mass_spectra, and the top rows of its table                     *)
(***************************************************************************)
Columns == <<"Retention Time (s)", "m/z", "Intensity">>

\* a table: its column names and its rows, in order
DataFrame(columns, rows) == [columns |-> columns, rows |-> rows]

\* pd.DataFrame()
EmptyDataFrame == DataFrame(<<>>, <<>>)

\* df.empty
empty(df) == df.columns = <<>> \/ df.rows = <<>>

\* the rows one spectrum adds to masses, intensities and rts
spectrum_rows(spectrum) ==
    LET rt    == spectrum.rt
        peaks == spectrum_get_peaks(spectrum)
        pairs == zip(mz_values(peaks), intensity_values(peaks))
    IN  [i \in 1 .. Len(pairs) |->
            [rt |-> rt, mz |-> pairs[i][1], intensity |-> pairs[i][2]]]

\* the rows of the first spectrum alone
collect_rows_first_spectrum(rows, spectra) ==
    IF spectra = <<>> THEN rows
    ELSE rows \o spectrum_rows(Head(spectra))

RECURSIVE collect_rows(_, _)
\* the loop over the spectra, appending to the rows collected so far
collect_rows(rows, spectra) ==
    IF spectra = <<>> THEN rows
    ELSE collect_rows(rows \o spectrum_rows(Head(spectra)), Tail(spectra))

\* the order of an ascending sort
sort_before_ascending(a, b) == a.intensity <= b.intensity

\* whether row a may stand before row b in the sorted table
sort_before(a, b) == a.intensity >= b.intensity

RECURSIVE orderings(_, _)
\* the orders in which the rows with the indexes in left can follow one
\* another: each time a row that may stand before all the rest
orderings(rows, left) ==
    IF left = {} THEN { <<>> }
    ELSE UNION { { <<rows[i]>> \o rest : rest \in orderings(rows, left \ {i}) } :
                 i \in { j \in left :
                           \A k \in left : sort_before(rows[j], rows[k]) } }

\* df.sort_values('Intensity', ascending=False): the default sort is not
\* stable, so rows of equal intensity come out in any order
sort_values(rows) == orderings(rows, 1 .. Len(rows))

\* the tables extract_mass_spectra can return
extract_mass_spectra(exp) ==
    LET rows == collect_rows(<<>>, exp.spectra)
    IN  IF rows = <<>>
        THEN { EmptyDataFrame }
        ELSE { DataFrame(Columns, r) : r \in sort_values(rows) }

\* df.head(n)
head(df, n) == DataFrame(df.columns, SubSeq(df.rows, 1, Min(n, Len(df.rows))))

\* the N of mass_df.head(10)
HEAD_ROWS == 10

(***************************************************************************)
(* The experiments a file can load to                                      *)
(***************************************************************************)
PeakValues == MzValues \X IntensityValues

\* the spectra with exactly k peaks
SpectraOfSize(k) ==
    { Spectrum(rt, [i \in 1 .. k |-> p[i][1]], [i \in 1 .. k |-> p[i][2]]) :
        rt \in RtValues, p \in [1 .. k -> PeakValues] }

RECURSIVE SpectraLists(_, _)
\* the sequences of n spectra holding at most budget peaks together
SpectraLists(n, budget) ==
    IF n = 0 THEN { <<>> }
    ELSE UNION { { <<s>> \o rest : s \in SpectraOfSize(k),
                                   rest \in SpectraLists(n - 1, budget - k) } :
                 k \in 0 .. budget }

PointValues == RtValues \X IntensityValues

\* the chromatogram records with exactly k data points
ChromatogramsOfSize(k) ==
    { Chromatogram([i \in 1 .. k |-> p[i][1]], [i \in 1 .. k |-> p[i][2]]) :
        p \in [1 .. k -> PointValues] }

RECURSIVE ChromatogramLists(_, _)
\* the sequences of n records holding at most budget data points together
ChromatogramLists(n, budget) ==
    IF n = 0 THEN { <<>> }
    ELSE UNION { { <<c>> \o rest : c \in ChromatogramsOfSize(k),
                                   rest \in ChromatogramLists(n - 1, budget - k) } :
                 k \in 0 .. budget }

\* files with spectra and no chromatogram record
SpectraExperiments ==
    { MSExperiment(s, <<>>) :
        s \in UNION { SpectraLists(n, MaxPeaks) : n \in 0 .. MaxSpectra } }

\* the spectra of the files enumerated with chromatogram records
FewSpectra ==
    { <<>>,
      <<Spectrum(1, <<1>>, <<2>>)>>,
      <<Spectrum(2, <<1, 3>>, <<1, 2>>), Spectrum(1, <<>>, <<>>)>> }

\* files with chromatogram records
ChromatogramExperiments ==
    { MSExperiment(s, c) :
        s \in FewSpectra,
        c \in UNION { ChromatogramLists(n, MaxChromPoints) :
                        n \in 1 .. MaxChromatograms } }

\* the worked example of the specification: three spectra at times 1, 2, 3;
\* m/z in units of 0.01, so 100.05 is 10005
ExampleSpectra ==
    << Spectrum(1, <<10000, 10005>>, <<50, 30>>),
       Spectrum(2, <<10002>>, <<20>>),
       Spectrum(3, <<20000>>, <<999>>) >>

\* its query: target mass 100.0, tolerance 0.05
ExampleQuery == <<10000, 5>>

\* the peak table example: one spectrum with intensities 10, 50, 5, 999, 20
TopExampleSpectra ==
    << Spectrum(1, <<1, 2, 3, 4, 5>>, <<10, 50, 5, 999, 20>>) >>

\* a file with more peaks than the top rows shown
LongSpectra ==
    << Spectrum(1, <<1, 2, 3, 4, 5, 6>>, <<3, 1, 4, 15, 9, 2>>),
       Spectrum(2, <<1, 2, 3, 4, 5>>, <<6, 5, 35, 8, 97>>) >>

ExampleExperiments ==
    { MSExperiment(s, c) :
        s \in {ExampleSpectra, TopExampleSpectra, LongSpectra},
        c \in {<<>>, <<Chromatogram(<<1, 2, 3>>, <<80, 20, 999>>)>>} }

Experiments ==
    SpectraExperiments \cup ChromatogramExperiments \cup ExampleExperiments

\* the files on which the list form of get_peaks() is explored too
ListApiExperiments ==
    { e \in Experiments : Len(e.spectra) <= 1 /\ Len(e.chromatograms) <= 1 }
        \cup ExampleExperiments

\* the (target_mass, tolerance) pairs asked for
EicQueries ==
    (TargetMasses \X Tolerances) \cup {ExampleQuery}

\* the N of the top rows shown
TopNs == (1 .. MaxTopN) \cup {HEAD_ROWS}

(***************************************************************************)
(* The script outside the calls: the fixed paths of its working directory, *)
(* the widgets of the page, and the names one execution binds.             *)
(***************************************************************************)
\* a path nothing has been written to
Absent == [type |-> "absent"]
\* a name the execution has not bound
Unbound == [type |-> "unbound"]

\* the paths the script writes and reads, the same for every session
Paths == {"temp.mzML", "temp_logo.png"}

NoDisk == [p \in Paths |-> Absent]

\* the page of a new session: nothing uploaded, the inputs at their defaults
\* (400.0 and 0.5, in units of 0.01), the button not clicked
DefaultQuery == <<40000, 50>>

DefaultWidgets ==
    [uploaded_file |-> PyNone, logo_file |-> PyNone,
     target_mass |-> DefaultQuery[1], tolerance |-> DefaultQuery[2],
     generate |-> FALSE]

\* no execution of the script yet
NoRun ==
    [pc |-> "done", kaleido_available |-> Unbound, log |-> <<>>,
     tic |-> Unbound, mass_df |-> Unbound, eic |-> Unbound,
     pdf_buffer |-> Unbound, uncaught |-> PyNone]

ScriptIdle ==
    /\ disk = NoDisk
    /\ kaleido_installed = TRUE
    /\ widgets = DefaultWidgets
    /\ session_logos = {}
    /\ run = NoRun
    /\ loads = <<>>

RECURSIVE sorted_by_rt(_)
\* the spectra in ascending retention time, as exp.sortSpectra() leaves them
sorted_by_rt(spectra) ==
    IF spectra = <<>> THEN <<>>
    ELSE LET h == Head(spectra)
             rest == sorted_by_rt(Tail(spectra))
         IN SelectSeq(rest, LAMBDA s : s.rt < h.rt) \o <<h>>
                \o SelectSeq(rest, LAMBDA s : s.rt >= h.rt)

\* an extraction that sorted the experiment it was handed
exp_after_sorting(exp) ==
    MSExperiment(sorted_by_rt(exp.spectra), exp.chromatograms)

\* the experiment once an extraction function has returned: the functions
\* call its getters only (getChromatograms, getSpectra, getRT, get_peaks)
exp_after_call(exp) == exp

(***************************************************************************)
(* The calls on a loaded experiment                                        *)
(***************************************************************************)
NoCall == [fn |-> "none"]

Init ==
    /\ experiment \in Experiments
    /\ peaks_api \in (IF experiment \in ListApiExperiments
                      THEN {"tuple", "list"} ELSE {"tuple"})
    /\ ret = NoCall
    /\ noted = NoCall
    /\ loaded = experiment
    /\ ScriptIdle

\* the history once call has run: a noted call now has another call after it
after(call) ==
    IF noted = NoCall \/ call = noted.call
    THEN noted
    ELSE [noted EXCEPT !.between = TRUE]

\* tic_times, tic_intensities = extract_chromatogram(experiment)
Call_extract_chromatogram ==
    /\ ret' = [fn |-> "extract_chromatogram",
               value |-> extract_chromatogram(experiment)]
    /\ noted' = after(ret')
    /\ experiment' = exp_after_call(experiment)
    /\ UNCHANGED <<peaks_api, loaded, script_vars>>

\* mass_df = extract_mass_spectra(experiment)
Call_extract_mass_spectra ==
    \E df \in extract_mass_spectra(experiment) :
        /\ ret' = [fn |-> "extract_mass_spectra", value |-> df]
        /\ noted' = after(ret')
        /\ experiment' = exp_after_call(experiment)
        /\ UNCHANGED <<peaks_api, loaded, script_vars>>

\* mass_df.head(n) of the table just extracted
Show_head(n) ==
    /\ ret.fn = "extract_mass_spectra"
    /\ ret' = [fn |-> "head", n |-> n, df |-> ret.value,
               value |-> head(ret.value, n)]
    /\ noted' = after(ret')
    /\ UNCHANGED <<experiment, peaks_api, loaded, script_vars>>

\* eic_times, eic_intensities = extract_eic(experiment, target_mass, tolerance)
Call_extract_eic(target_mass, tolerance) ==
    /\ ret' = [fn |-> "extract_eic", target_mass |-> target_mass,
               tolerance |-> tolerance,
               value |-> extract_eic(experiment, target_mass, tolerance)]
    /\ noted' = after(ret')
    /\ experiment' = exp_after_call(experiment)
    /\ UNCHANGED <<peaks_api, loaded, script_vars>>

Next ==
    \/ Call_extract_chromatogram
    \/ Call_extract_mass_spectra
    \/ \E n \in TopNs : Show_head(n)
    \/ \E q \in EicQueries : Call_extract_eic(q[1], q[2])

Spec == Init /\ [][Next]_vars

(***************************************************************************)
(* Repeated extraction: the calls above, with one extract_eic call noted   *)
(* so that a later call with the same arguments can be compared with it.   *)
(***************************************************************************)
\* files of one retention time and one intensity: what an extraction keeps
\* from one call to the next does not depend on the values
RerunExperiments ==
    { e \in SpectraExperiments :
        \A i \in 1 .. Len(e.spectra) :
            /\ e.spectra[i].rt = 1
            /\ \A j \in 1 .. Len(e.spectra[i].intensity) :
                   e.spectra[i].intensity[j] = 1 }

InitRerun ==
    /\ experiment \in RerunExperiments
    /\ peaks_api = "tuple"
    /\ ret = NoCall
    /\ noted = NoCall
    /\ loaded = experiment
    /\ ScriptIdle

\* keep the extract_eic call that has just returned
Note ==
    /\ ret.fn = "extract_eic"
    /\ noted = NoCall
    /\ noted' = [call |-> ret, between |-> FALSE]
    /\ UNCHANGED <<experiment, peaks_api, ret, loaded, script_vars>>

NextRerun ==
    \/ Next
    \/ Note

RerunSpec == InitRerun /\ [][NextRerun]_vars

(***************************************************************************)
(* What the properties below speak of                                      *)
(***************************************************************************)
IsEic == ret.fn = "extract_eic"

\* the spectra of the loaded experiment
TheSpectra == experiment.spectra

\* the indexes of the peaks of spectrum s whose m/z lies in the closed
\* window [target_mass - tolerance, target_mass + tolerance]
PeaksInWindow(s, target_mass, tolerance) ==
    { j \in 1 .. Len(s.mz) :
        target_mass - tolerance <= s.mz[j] /\ s.mz[j] <= target_mass + tolerance }

RECURSIVE IntensityOver(_, _)
\* the intensities of spectrum s at the peak indexes in js, added up
IntensityOver(s, js) ==
    IF js = {} THEN 0
    ELSE LET j == CHOOSE k \in js : TRUE
         IN  s.intensity[j] + IntensityOver(s, js \ {j})

\* the summed intensity of spectrum s within the window
WindowSum(s, target_mass, tolerance) ==
    IntensityOver(s, PeaksInWindow(s, target_mass, tolerance))

\* the returned times and intensities of an extract_eic call
EicTimes == ret.value[1].items
EicIntensities == ret.value[2].items

IsAscending(seq) == \A i \in 1 .. Len(seq) - 1 : seq[i] <= seq[i + 1]

\* how often x occurs in seq
Occurrences(x, seq) == Cardinality({ i \in 1 .. Len(seq) : seq[i] = x })

\* the retention times of the spectra, in the experiment's order
SpectraTimes == [i \in 1 .. Len(TheSpectra) |-> TheSpectra[i].rt]

(***************************************************************************)
(* C1.  In extract_eic a peak's intensity contributes to the output iff    *)
(* abs(mz - target_mass) <= tolerance: the intensity put out for a         *)
(* spectrum is the sum over exactly the peaks inside the closed window     *)
(* (both boundaries included, equality alone when the tolerance is 0), so  *)
(* leaving a peak of the window out or counting one outside it changes it  *)
(* (the intensities here are positive).                                    *)
(***************************************************************************)
C1_WindowExact ==
    IsEic =>
        \A i \in 1 .. Len(TheSpectra) :
            /\ i <= Len(EicIntensities)
            /\ EicIntensities[i] =
                   WindowSum(TheSpectra[i], ret.target_mass, ret.tolerance)

\* a spectrum with a peak on each boundary of the window, both counted
C1_Witness ==
    /\ IsEic
    /\ ret.tolerance = 1
    /\ \E i \in 1 .. Len(TheSpectra) :
           /\ TheSpectra[i].mz = <<ret.target_mass - 1, ret.target_mass + 1>>
           /\ EicIntensities[i] =
                  TheSpectra[i].intensity[1] + TheSpectra[i].intensity[2]

(***************************************************************************)
(* C2.  extract_eic is dense: for n spectra it returns n (time,            *)
(* intensity) points, the i-th with the i-th spectrum's retention time and *)
(* the sum of that spectrum's matching intensities, 0 when none matches;   *)
(* the worked example yields [(1, 80), (2, 20), (3, 0)].                   *)
(***************************************************************************)
C2_Dense ==
    IsEic =>
        /\ Len(EicTimes) = Len(TheSpectra)
        /\ Len(EicIntensities) = Len(TheSpectra)
        /\ \A i \in 1 .. Len(TheSpectra) :
               /\ EicTimes[i] = TheSpectra[i].rt
               /\ EicIntensities[i] =
                      (IF PeaksInWindow(TheSpectra[i], ret.target_mass,
                                        ret.tolerance) = {}
                       THEN 0
                       ELSE WindowSum(TheSpectra[i], ret.target_mass,
                                      ret.tolerance))
        /\ (/\ TheSpectra = ExampleSpectra
            /\ <<ret.target_mass, ret.tolerance>> = ExampleQuery)
           => ret.value = <<PyList(<<1, 2, 3>>), PyList(<<80, 20, 0>>)>>

\* the worked example, extracted
C2_Witness ==
    /\ IsEic
    /\ TheSpectra = ExampleSpectra
    /\ <<ret.target_mass, ret.tolerance>> = ExampleQuery
    /\ ret.value = <<PyList(<<1, 2, 3>>), PyList(<<80, 20, 0>>)>>

(***************************************************************************)
(* C3.  As claimed: the extracted chromatogram has one entry per distinct  *)
(* retention time; spectra that share a retention time are summed into a   *)
(* single point, so no retention time appears twice in the output.         *)
(***************************************************************************)
C3_OnePointPerTime ==
    IsEic =>
        /\ \A i, j \in 1 .. Len(EicTimes) : EicTimes[i] = EicTimes[j] => i = j
        /\ \A k \in 1 .. Len(TheSpectra) :
               \E i \in 1 .. Len(EicTimes) :
                   /\ EicTimes[i] = TheSpectra[k].rt
                   /\ EicIntensities[i] =
                          sum([m \in 1 .. Len(TheSpectra) |->
                                 IF TheSpectra[m].rt = TheSpectra[k].rt
                                 THEN WindowSum(TheSpectra[m], ret.target_mass,
                                                ret.tolerance)
                                 ELSE 0])

(***************************************************************************)
(* C3, amended.  The extracted chromatogram has one entry per spectrum:    *)
(* spectra that share a retention time each give their own point, with     *)
(* that spectrum's matching sum alone, so a retention time appears in the  *)
(* output as often as among the spectra (once when they are distinct).     *)
(***************************************************************************)
C3_OnePointPerSpectrum ==
    IsEic =>
        /\ \A k \in 1 .. Len(TheSpectra) :
               Occurrences(TheSpectra[k].rt, EicTimes) =
                   Occurrences(TheSpectra[k].rt, SpectraTimes)
        /\ \A i \in 1 .. Len(EicTimes) :
               /\ Occurrences(EicTimes[i], SpectraTimes) >= 1
               /\ i <= Len(TheSpectra)
               /\ EicIntensities[i] =
                      WindowSum(TheSpectra[i], ret.target_mass, ret.tolerance)

\* two spectra of one retention time, both with a matching peak: two points
C3_Witness ==
    /\ IsEic
    /\ Len(TheSpectra) = 2
    /\ TheSpectra[1].rt = TheSpectra[2].rt
    /\ Len(EicTimes) = 2
    /\ EicTimes[1] = EicTimes[2]
    /\ EicIntensities[1] > 0
    /\ EicIntensities[2] > 0

(***************************************************************************)
(* C4.  As claimed: whatever the order of the spectra in the experiment,   *)
(* the series extract_eic returns is sorted by retention time ascending.   *)
(***************************************************************************)
C4_AlwaysAscending == IsEic => IsAscending(EicTimes)

(***************************************************************************)
(* C4, amended.  The series extract_eic returns is in the order of the     *)
(* spectra in the experiment; it is sorted by retention time ascending     *)
(* whenever the experiment holds its spectra in that order.                *)
(***************************************************************************)
C4_SpectrumOrder ==
    IsEic =>
        /\ EicTimes = SpectraTimes
        /\ IsAscending(SpectraTimes) => IsAscending(EicTimes)

\* spectra in ascending order of two different times, extracted in order
C4_Witness ==
    /\ IsEic
    /\ Len(TheSpectra) = 2
    /\ TheSpectra[1].rt < TheSpectra[2].rt
    /\ EicTimes = <<TheSpectra[1].rt, TheSpectra[2].rt>>

(***************************************************************************)
(* C5.  extract_eic never signals an error: it returns two lists, never    *)
(* None; two empty lists for an experiment without spectra; and an         *)
(* all-zero series as long as the spectrum count when no peak matches.     *)
(***************************************************************************)
C5_NoErrorSignal ==
    IsEic =>
        /\ ret.value[1].type = "list"
        /\ ret.value[2].type = "list"
        /\ TheSpectra = <<>> => ret.value = <<PyList(<<>>), PyList(<<>>)>>
        /\ (\A i \in 1 .. Len(TheSpectra) :
                PeaksInWindow(TheSpectra[i], ret.target_mass, ret.tolerance) = {})
           => /\ Len(EicIntensities) = Len(TheSpectra)
              /\ \A i \in 1 .. Len(EicIntensities) : EicIntensities[i] = 0

\* an experiment without spectra, extracted: two empty lists
C5_Witness ==
    /\ IsEic
    /\ TheSpectra = <<>>
    /\ ret.value = <<PyList(<<>>), PyList(<<>>)>>

PeakPlaces ==
    UNION { { <<i, j>> : j \in 1 .. Len(TheSpectra[i].mz) } :
            i \in 1 .. Len(TheSpectra) }

\* the triple of the peak at place p
TripleAt(p) ==
    [rt |-> TheSpectra[p[1]].rt,
     mz |-> TheSpectra[p[1]].mz[p[2]],
     intensity |-> TheSpectra[p[1]].intensity[p[2]]]

C7_OneRowPerPeak ==
    ret.fn = "extract_mass_spectra" =>
        LET rows == ret.value.rows
        IN  /\ Len(rows) = Cardinality(PeakPlaces)
            /\ \A p \in PeakPlaces :
                   Occurrences(TripleAt(p), rows) =
                       Cardinality({ q \in PeakPlaces : TripleAt(q) = TripleAt(p) })
            /\ \A k \in 1 .. Len(rows) : \E p \in PeakPlaces : rows[k] = TripleAt(p)
            /\ PeakPlaces = {} => ret.value = EmptyDataFrame

\* two spectra with the same peak at the same time: the row is there twice
C7_Witness ==
    /\ ret.fn = "extract_mass_spectra"
    /\ Len(TheSpectra) = 2
    /\ Len(ret.value.rows) = 2
    /\ ret.value.rows[1] = ret.value.rows[2]

(***************************************************************************)
(* C8.  As claimed: when the experiment has no chromatogram record but     *)
(* has spectra, extract_chromatogram derives the total-ion chromatogram:   *)
(* one point per spectrum, its retention time and the sum of its           *)
(* intensity array.                                                        *)
(***************************************************************************)
C8_DerivedFromSpectra ==
    (/\ ret.fn = "extract_chromatogram"
     /\ Len(experiment.chromatograms) = 0
     /\ Len(TheSpectra) > 0)
    => /\ ret.value[1] # PyNone
       /\ ret.value[2] # PyNone
       /\ ret.value[1].items = SpectraTimes
       /\ ret.value[2].items =
              [i \in 1 .. Len(TheSpectra) |-> sum(TheSpectra[i].intensity)]

(***************************************************************************)
(* C9.  When a chromatogram record exists, extract_chromatogram returns    *)
(* the first record's times and intensities unchanged: as many points, in  *)
(* the same order, whatever the records after the first hold.              *)
(***************************************************************************)
C9_FirstRecordUnchanged ==
    (/\ ret.fn = "extract_chromatogram"
     /\ Len(experiment.chromatograms) >= 1)
    => /\ ret.value[1].type # "NoneType"
       /\ ret.value[2].type # "NoneType"
       /\ ret.value[1].items = experiment.chromatograms[1].rt
       /\ ret.value[2].items = experiment.chromatograms[1].intensity

\* two records of different data: the first one is returned
C9_Witness ==
    /\ ret.fn = "extract_chromatogram"
    /\ Len(experiment.chromatograms) = 2
    /\ experiment.chromatograms[1] # experiment.chromatograms[2]
    /\ Len(experiment.chromatograms[1].rt) >= 1
    /\ ret.value[1].items = experiment.chromatograms[1].rt
    /\ ret.value[2].items = experiment.chromatograms[1].intensity

(***************************************************************************)
(* C10.  The top-N view, head(N) of the table extract_mass_spectra         *)
(* sorted, holds the min(N, row count) rows of highest intensity in        *)
(* non-increasing order: every row left out has intensity <= every row     *)
(* kept; intensities [10, 50, 5, 999, 20] with N = 3 give [999, 50, 20].   *)
(***************************************************************************)
\* the intensities of rows, in order
IntensitiesOf(rows) == [k \in 1 .. Len(rows) |-> rows[k].intensity]

\* the peaks, as triples, that are not among rows: each triple as often as
\* it is a peak of the experiment beyond its occurrences in rows
LeftOut(rows) ==
    { p \in PeakPlaces :
        Cardinality({ q \in PeakPlaces : TripleAt(q) = TripleAt(p) })
            > Occurrences(TripleAt(p), rows) }

C10_TopN ==
    ret.fn = "head" =>
        LET kept == ret.value.rows
        IN  /\ Len(kept) = Min(ret.n, Cardinality(PeakPlaces))
            /\ \A k \in 1 .. Len(kept) :
                   /\ \E p \in PeakPlaces : kept[k] = TripleAt(p)
                   /\ Occurrences(kept[k], kept) <=
                          Cardinality({ q \in PeakPlaces : TripleAt(q) = kept[k] })
            /\ \A k \in 1 .. Len(kept) - 1 :
                   kept[k].intensity >= kept[k + 1].intensity
            /\ \A p \in LeftOut(kept) : \A k \in 1 .. Len(kept) :
                   TripleAt(p).intensity <= kept[k].intensity
            /\ (TheSpectra = TopExampleSpectra /\ ret.n = 3)
               => IntensitiesOf(kept) = <<999, 50, 20>>

\* the example: five rows, the three highest kept in order
C10_Witness ==
    /\ ret.fn = "head"
    /\ TheSpectra = TopExampleSpectra
    /\ ret.n = 3
    /\ IntensitiesOf(ret.value.rows) = <<999, 50, 20>>

(***************************************************************************)
(* Files: what an upload holds, the two fixed paths, and the readers of    *)
(* the libraries (MzMLFile.load, PIL's Image.open).                        *)
(***************************************************************************)
\* the bytes of a file: its format and, for a well-formed one, what it holds
Bytes(format, content) == [type |-> "bytes", format |-> format, content |-> content]

\* a file the mzML reader cannot parse
NotMzml == Bytes("text", PyNone)
\* a file just opened for writing: nothing in it yet
EmptyBytes == Bytes("empty", PyNone)
\* the mzML document of an experiment
mzml_bytes(exp) == Bytes("mzML", exp)

\* a logo PIL can open, and one it cannot
PngLogo == Bytes("png", PyNone)
CorruptLogo == Bytes("text", PyNone)

\* the retention times and intensities of the example's chromatogram record
ExampleChromatogram == Chromatogram(<<1, 2, 3>>, <<80, 20, 999>>)

\* the experiments of the uploaded mzML files: spectra and no chromatogram,
\* a chromatogram and no peak, and two files with both
UploadedExperiments ==
    { MSExperiment(ExampleSpectra, <<>>),
      MSExperiment(<<Spectrum(1, <<>>, <<>>)>>, <<ExampleChromatogram>>),
      MSExperiment(ExampleSpectra, <<ExampleChromatogram>>),
      MSExperiment(LongSpectra, <<ExampleChromatogram>>) }

\* what st.file_uploader returns once a file is chosen
UploadedFile(name, bytes) == [name |-> name, bytes |-> bytes]

MzmlUploads ==
    { UploadedFile("notes.mzML", NotMzml) } \cup
    { UploadedFile("run.mzML", mzml_bytes(e)) : e \in UploadedExperiments }

LogoUploads == { UploadedFile("logo.png", PngLogo),
                 UploadedFile("logo.png", CorruptLogo) }

\* open(path, "wb"): the file is created or truncated
open_wb(d, path) == [d EXCEPT ![path] = EmptyBytes]

\* f.write(bytes) and the close at the end of the with block, skipped
write_skipped(d, path, bytes) == d

\* f.write(bytes) and the close at the end of the with block
write(d, path, bytes) == [d EXCEPT ![path] = bytes]

\* os.path.exists(path)
exists(d, path) == d[path] # Absent

\* a raised exception, and a returned value
Raised(exception) == [raised |-> TRUE, exception |-> exception]
Returned(value) == [raised |-> FALSE, value |-> value]

\* mzml_file.load(path, exp): the experiment of the document at path, or the
\* reader's exception when there is no well-formed mzML document there
MzMLFile_load(d, path) ==
    IF exists(d, path) /\ d[path].format = "mzML"
    THEN Returned(d[path].content)
    ELSE Raised("RuntimeError")

\* a loader that parses the file already at the path when there is one
load_mzml_file_cached(d, file_bytes) ==
    LET written == IF exists(d, "temp.mzML") THEN d
                   ELSE write(open_wb(d, "temp.mzML"), "temp.mzML", file_bytes)
    IN [disk |-> written, result |-> MzMLFile_load(written, "temp.mzML")]

\* load_mzml_file when nothing else touches the directory meanwhile: the
\* directory it leaves, and what it returns or raises
load_mzml_file(d, file_bytes) ==
    LET written == write(open_wb(d, "temp.mzML"), "temp.mzML", file_bytes)
    IN [disk |-> written, result |-> MzMLFile_load(written, "temp.mzML")]

(***************************************************************************)
(* create_pdf_report: the flowables it appends to elements, in order, and  *)
(* the image exports it attempts on the way.                               *)
(***************************************************************************)
\* a flowable of the report: what it is and the data it shows
Element(what, data) == [what |-> what, data |-> data]

Spacer == Element("Spacer", PyNone)

\* Image.open(path) and RLImage(path): whether the file is an image PIL reads
Image_open(d, path) ==
    IF d[path].format = "png" THEN Returned(d[path]) ELSE Raised("UnidentifiedImageError")

\* the header: the logo beside the title, the title and a logo error, or the
\* title alone
logo_elements(d, pdf_title) ==
    IF exists(d, "temp_logo.png")
    THEN IF ~Image_open(d, "temp_logo.png").raised
         THEN << Element("header_table",
                         [logo_img |-> d["temp_logo.png"], title |-> pdf_title]) >>
         ELSE << Element("title", pdf_title), Element("Logo error", PyNone) >>
    ELSE << Element("title", pdf_title) >>

\* fig.write_image(path) tried whatever kaleido_available says
plot_unguarded(fig, path, available, exported, unavailable_text) ==
    [write_image |-> <<path>>,
     elements |-> IF exported THEN << Element("image", [path |-> path, fig |-> fig]) >>
                  ELSE << Element("image error", path) >>]

\* the image of one plot: exported and embedded, an error paragraph when the
\* export raises, and, with kaleido unavailable, no attempt and the given
\* paragraphs instead
plot(fig, path, available, exported, unavailable_text) ==
    IF available
    THEN [write_image |-> <<path>>,
          elements |-> IF exported
                       THEN << Element("image", [path |-> path, fig |-> fig]) >>
                       ELSE << Element("image error", path) >>]
    ELSE [write_image |-> <<>>, elements |-> unavailable_text]

\* the peak table section, left out when the table is empty
table_elements(mass_df) ==
    IF ~empty(mass_df)
    THEN << Element("table heading", "Top 10 Mass Spectra Peaks"),
            Spacer, Element("mass_table", mass_df), Spacer >>
    ELSE <<>>

\* doc.build(elements): the document written into the buffer
build(elements) == [type |-> "pdf", elements |-> elements]

\* create_pdf_report(filename, tic_fig, eic_fig, mass_df, target_mass,
\* tolerance, pdf_title) in a working directory d, with the global
\* kaleido_available, and with each export succeeding or raising as given
create_pdf_report(d, available, tic_exported, eic_exported, filename, tic_fig, eic_fig, mass_df, target_mass, tolerance, pdf_title) ==
    LET tic_img == plot(tic_fig, "temp_tic.png", available, tic_exported,
                        << Element("no kaleido", PyNone) >>)
        eic_img == plot(eic_fig, "temp_eic.png", available, eic_exported, <<>>)
        elements ==
            logo_elements(d, pdf_title)
            \o << Spacer, Element("file", filename), Element("generated", PyNone),
                  Spacer, Element("TIC heading", "Total Ion Chromatogram"), Spacer >>
            \o tic_img.elements
            \o << Spacer,
                  Element("EIC heading", [target_mass |-> target_mass,
                                          tolerance |-> tolerance]),
                  Spacer >>
            \o eic_img.elements
            \o << Spacer >>
            \o table_elements(mass_df)
            \o << Element("details", [target_mass |-> target_mass,
                                      tolerance |-> tolerance]),
                  Spacer, Element("footer", "(c) 2025 Kapelczak Metabolomics") >>
    IN [write_image |-> tic_img.write_image \o eic_img.write_image,
        pdf_buffer |-> build(elements)]

(***************************************************************************)
(* The main flow.  Every interaction with the page runs the script again,  *)
(* top to bottom; run.pc is the statement the execution has reached and    *)
(* run.log what it has called and shown so far.  One browser session is    *)
(* served at a time; a new session starts with the widgets at their        *)
(* defaults and finds the working directory as the earlier ones left it.   *)
(***************************************************************************)
Event(kind, what) == [kind |-> kind, what |-> what]

\* the execution r after it has shown or called the events es
logged(r, es) == [r EXCEPT !.log = @ \o es]

\* the (target m/z, tolerance) pairs entered in the two number inputs
FlowQueries == {DefaultQuery, ExampleQuery}

\* what the widgets may hold when the script runs
WidgetStates ==
    { [uploaded_file |-> u, logo_file |-> l,
       target_mass |-> q[1], tolerance |-> q[2], generate |-> g] :
        u \in {PyNone} \cup MzmlUploads, l \in {PyNone} \cup LogoUploads,
        q \in FlowQueries, g \in BOOLEAN }

PDF_TITLE == "My mzML Report"

\* a new execution of the script: no name bound, nothing shown
NewRun == [NoRun EXCEPT !.pc = "imports"]

FlowInit ==
    /\ experiment = Unbound
    /\ peaks_api = "tuple"
    /\ ret = NoCall
    /\ noted = NoCall
    /\ loaded = Unbound
    /\ disk = NoDisk
    /\ kaleido_installed \in BOOLEAN
    /\ widgets = DefaultWidgets
    /\ session_logos = {}
    /\ run = NewRun
    /\ loads = <<>>

\* the user changes the page to w (uploads, edits an input, clicks the
\* button): the script runs again from the top
Rerun(w) ==
    /\ run.pc = "done"
    /\ widgets' = w
    /\ session_logos' = IF w.logo_file = PyNone THEN session_logos
                        ELSE session_logos \cup {w.logo_file.bytes}
    /\ run' = NewRun
    /\ experiment' = Unbound
    /\ loaded' = Unbound
    /\ UNCHANGED <<peaks_api, ret, noted, disk, kaleido_installed, loads>>

\* another browser session opens the app: a fresh page, the same directory
NewSession ==
    /\ run.pc = "done"
    /\ widgets' = DefaultWidgets
    /\ session_logos' = {}
    /\ run' = NewRun
    /\ experiment' = Unbound
    /\ loaded' = Unbound
    /\ UNCHANGED <<peaks_api, ret, noted, disk, kaleido_installed, loads>>

\* try: import kaleido ... except ImportError: warn, pip install
Step_imports ==
    /\ run.pc = "imports"
    /\ IF kaleido_installed
       THEN /\ run' = [run EXCEPT !.pc = "sidebar", !.kaleido_available = TRUE]
            /\ UNCHANGED kaleido_installed
       ELSE /\ run' = logged([run EXCEPT !.pc = "sidebar",
                                         !.kaleido_available = FALSE],
                             << Event("st.warning", "Kaleido package is required"),
                                Event("os.system", "pip install -U kaleido") >>)
            /\ kaleido_installed' \in BOOLEAN
    /\ UNCHANGED <<experiment, peaks_api, ret, noted, loaded, disk, widgets,
                   session_logos, loads>>

\* the sidebar: an uploaded logo is saved to temp_logo.png
Step_sidebar ==
    /\ run.pc = "sidebar"
    /\ IF widgets.logo_file # PyNone
       THEN /\ disk' = write(open_wb(disk, "temp_logo.png"), "temp_logo.png",
                             widgets.logo_file.bytes)
            /\ run' = logged([run EXCEPT !.pc = "upload"],
                             << Event("st.success", "Logo uploaded successfully!") >>)
       ELSE /\ run' = [run EXCEPT !.pc = "upload"]
            /\ UNCHANGED disk
    /\ UNCHANGED <<experiment, peaks_api, ret, noted, loaded, kaleido_installed,
                   widgets, session_logos, loads>>

\* if uploaded_file is not None: ... else: st.info(...)
Step_upload ==
    /\ run.pc = "upload"
    /\ run' = IF widgets.uploaded_file # PyNone
              THEN [run EXCEPT !.pc = "load"]
              ELSE logged([run EXCEPT !.pc = "done"],
                          << Event("st.info", "Please upload an mzML file") >>)
    /\ UNCHANGED <<experiment, peaks_api, ret, noted, loaded, disk,
                   kaleido_installed, widgets, session_logos, loads>>

\* experiment = load_mzml_file(file_bytes), with no try around it: what the
\* reader raises ends the execution
Step_load ==
    /\ run.pc = "load"
    /\ LET call == load_mzml_file(disk, widgets.uploaded_file.bytes)
       IN  /\ disk' = call.disk
           /\ IF call.result.raised
              THEN /\ run' = logged([run EXCEPT !.pc = "done",
                                                !.uncaught = call.result],
                                    << Event("call", "load_mzml_file") >>)
                   /\ UNCHANGED <<experiment, loaded>>
              ELSE /\ experiment' = call.result.value
                   /\ loaded' = call.result.value
                   /\ run' = logged([run EXCEPT !.pc = "tic"],
                                    << Event("call", "load_mzml_file"),
                                       Event("st.success", "File loaded successfully!") >>)
    /\ UNCHANGED <<peaks_api, ret, noted, kaleido_installed, widgets,
                   session_logos, loads>>

\* tic_times, tic_intensities = extract_chromatogram(experiment); the error
\* message when either is None, the plot otherwise
Step_tic ==
    /\ run.pc = "tic"
    /\ LET tic == extract_chromatogram(experiment)
       IN  run' = IF tic[1] = PyNone \/ tic[2] = PyNone
                  THEN logged([run EXCEPT !.pc = "done", !.tic = Returned(tic)],
                              << Event("call", "extract_chromatogram"),
                                 Event("st.error", "No chromatogram data found in this mzML file.") >>)
                  ELSE logged([run EXCEPT !.pc = "mass", !.tic = Returned(tic)],
                              << Event("call", "extract_chromatogram"),
                                 Event("st.plotly_chart", "tic_fig") >>)
    /\ experiment' = exp_after_call(experiment)
    /\ UNCHANGED <<peaks_api, ret, noted, loaded, page_vars>>

\* mass_df = extract_mass_spectra(experiment); the warning when it is
\* empty, its first ten rows otherwise
Step_mass ==
    /\ run.pc = "mass"
    /\ \E mass_df \in extract_mass_spectra(experiment) :
           run' = logged([run EXCEPT !.pc = "eic", !.mass_df = mass_df],
                         << Event("call", "extract_mass_spectra"),
                            IF empty(mass_df)
                            THEN Event("st.warning", "No mass spectra data available.")
                            ELSE Event("st.dataframe", "mass_df.head(10)") >>)
    /\ experiment' = exp_after_call(experiment)
    /\ UNCHANGED <<peaks_api, ret, noted, loaded, page_vars>>

\* the two number inputs, extract_eic with their values, and its plot
Step_eic ==
    /\ run.pc = "eic"
    /\ LET target_mass == widgets.target_mass
           tolerance == widgets.tolerance
       IN  run' = logged([run EXCEPT
                              !.pc = "button",
                              !.eic = [target_mass |-> target_mass,
                                       tolerance |-> tolerance,
                                       value |-> extract_eic(experiment, target_mass,
                                                             tolerance)]],
                         << Event("call", "extract_eic"),
                            Event("st.plotly_chart", "eic_fig") >>)
    /\ experiment' = exp_after_call(experiment)
    /\ UNCHANGED <<peaks_api, ret, noted, loaded, page_vars>>

\* if st.button("Generate PDF Report"): the report, its download link
Step_button ==
    /\ run.pc = "button"
    /\ IF widgets.generate
       THEN \E tic_exported \in BOOLEAN, eic_exported \in BOOLEAN :
                LET call == create_pdf_report(
                                disk, run.kaleido_available, tic_exported,
                                eic_exported, widgets.uploaded_file.name,
                                run.tic.value, run.eic.value,
                                head(run.mass_df, HEAD_ROWS), run.eic.target_mass,
                                run.eic.tolerance, PDF_TITLE)
                IN  run' = logged([run EXCEPT !.pc = "done",
                                              !.pdf_buffer = call.pdf_buffer],
                                  << Event("call", "create_pdf_report") >>
                                  \o [i \in 1 .. Len(call.write_image) |->
                                         Event("write_image", call.write_image[i])]
                                  \o << Event("st.markdown", "download_link"),
                                        Event("st.success", "PDF report generated successfully!") >>)
       ELSE run' = [run EXCEPT !.pc = "done"]
    /\ UNCHANGED <<experiment, peaks_api, ret, noted, loaded, page_vars>>

FlowNext ==
    \/ \E w \in WidgetStates : Rerun(w)
    \/ NewSession
    \/ Step_imports
    \/ Step_sidebar
    \/ Step_upload
    \/ Step_load
    \/ Step_tic
    \/ Step_mass
    \/ Step_eic
    \/ Step_button

FlowSpec == FlowInit /\ [][FlowNext]_vars

(***************************************************************************)
(* What the properties of the main flow speak of                           *)
(***************************************************************************)
\* the execution has called fn
Called(fn) == \E i \in 1 .. Len(run.log) : run.log[i] = Event("call", fn)

\* the execution has shown something with st.<kind>
Shown(kind) == \E i \in 1 .. Len(run.log) : run.log[i].kind = kind

\* the execution has shown exactly this
ShownText(kind, text) ==
    \E i \in 1 .. Len(run.log) : run.log[i] = Event(kind, text)

\* the file chosen in the uploader is one the mzML reader raises on
Unparseable ==
    /\ widgets.uploaded_file # PyNone
    /\ widgets.uploaded_file.bytes.format # "mzML"

\* C11: when the uploaded file cannot be parsed and load_mzml_file has been
\* called on it, the exception does not escape the execution, an error
\* message is shown, and no extraction, plot or report step has run.
C11_ParseFailureCaught ==
    (Unparseable /\ Called("load_mzml_file")) =>
        /\ run.uncaught = PyNone
        /\ Shown("st.error")
        /\ ~Called("extract_chromatogram")
        /\ ~Called("extract_mass_spectra")
        /\ ~Called("extract_eic")
        /\ ~Called("create_pdf_report")
        /\ ~Shown("st.plotly_chart")

\* the file loaded in this execution has no chromatogram record
NoChromatogramLoaded == loaded # Unbound /\ loaded.chromatograms = <<>>

\* the file loaded in this execution has no peak in any spectrum
NoPeakLoaded ==
    /\ loaded # Unbound
    /\ \A i \in 1 .. Len(loaded.spectra) : loaded.spectra[i].mz = <<>>

\* C12: once extract_chromatogram has been called on a file without a
\* chromatogram record it has returned (None, None), nothing was raised, the
\* error message is shown and the execution is over with no peak table, no
\* ion chromatogram and no report; and once extract_mass_spectra has been
\* called on a file without peaks the table is empty, the warning is shown
\* and nothing was raised.
C12_EmptyResults ==
    /\ (NoChromatogramLoaded /\ Called("extract_chromatogram")) =>
           /\ run.tic = Returned(<<PyNone, PyNone>>)
           /\ run.uncaught = PyNone
           /\ run.pc = "done"
           /\ ShownText("st.error", "No chromatogram data found in this mzML file.")
           /\ run.mass_df = Unbound /\ ~Called("extract_mass_spectra")
           /\ run.eic = Unbound /\ ~Called("extract_eic")
           /\ run.pdf_buffer = Unbound /\ ~Called("create_pdf_report")
    /\ (NoPeakLoaded /\ Called("extract_mass_spectra")) =>
           /\ run.mass_df = EmptyDataFrame
           /\ ShownText("st.warning", "No mass spectra data available.")
           /\ ~Shown("st.dataframe")
           /\ run.uncaught = PyNone

\* a file with spectra and no chromatogram record, the button clicked, and
\* the execution over after the error message
C12_Witness ==
    /\ NoChromatogramLoaded
    /\ loaded.spectra = ExampleSpectra
    /\ widgets.generate
    /\ run.pc = "done"
    /\ Shown("st.error")

(***************************************************************************)
(* app.py, the HEAD side of its conflict blocks: its extraction functions  *)
(* and the report generation of its main flow.                             *)
(***************************************************************************)
RECURSIVE head_first_match(_, _, _, _)
\* for i, mz in enumerate(mz_values): if abs(mz - target_mass) <= tolerance:
\* append peak_intensities[i] and break; else: append 0
head_first_match(mz, peak_intensities, target_mass, tolerance) ==
    IF mz = <<>> \/ peak_intensities = <<>> THEN 0
    ELSE IF abs(Head(mz) - target_mass) <= tolerance
         THEN Head(peak_intensities)
         ELSE head_first_match(Tail(mz), Tail(peak_intensities),
                               target_mass, tolerance)

head_extract_eic(exp, target_mass, tolerance) ==
    LET spectra == exp.spectra
    IN  IF Len(spectra) = 0
        THEN <<PyNone, PyNone>>
        ELSE << PyList([i \in 1 .. Len(spectra) |-> spectra[i].rt]),
                PyList([i \in 1 .. Len(spectra) |->
                           head_first_match(spectra[i].mz, spectra[i].intensity,
                                            target_mass, tolerance)]) >>

HeadColumns == <<"m/z", "Intensity">>

\* the tables HEAD's extract_mass_spectra can return: the peaks of
\* spectra[0] alone, by descending intensity
head_extract_mass_spectra(exp) ==
    LET spectra == exp.spectra
    IN  IF Len(spectra) = 0
        THEN { EmptyDataFrame }
        ELSE LET spectrum == spectra[1]
                 rows == [i \in 1 .. Min(Len(spectrum.mz), Len(spectrum.intensity)) |->
                             [mz |-> spectrum.mz[i],
                              intensity |-> spectrum.intensity[i]]]
             IN  { DataFrame(HeadColumns, r) : r \in sort_values(rows) }

\* the report generation of HEAD's main flow: both figures are exported with
\* write_image whatever kaleido_available says, and nothing catches what
\* that raises; then the payload goes to the Carbone service
head_generate_report(d, installed, exported, eic_fig, mass_df) ==
    IF ~(installed /\ exported)
    THEN [write_image |-> <<"tic_fig">>, result |-> Raised("ValueError")]
    ELSE [write_image |-> <<"tic_fig">> \o
                          (IF eic_fig # PyNone THEN <<"eic_fig">> ELSE <<>>),
          result |-> Returned([logo |-> d["temp_logo.png"],
                               mass_data |-> head(mass_df, HEAD_ROWS)])]

\* the files explored with the HEAD functions
HeadExperiments == ChromatogramExperiments \cup ExampleExperiments

\* the script after its imports, with a file loaded
HeadInit ==
    /\ experiment \in HeadExperiments
    /\ peaks_api = "tuple"
    /\ ret = NoCall
    /\ noted = NoCall
    /\ loaded = experiment
    /\ disk = NoDisk
    /\ kaleido_installed \in BOOLEAN
    /\ widgets = DefaultWidgets
    /\ session_logos = {}
    /\ run = [NoRun EXCEPT !.kaleido_available = kaleido_installed]
    /\ loads = <<>>

\* mass_df = extract_mass_spectra(experiment)
Head_extract_mass_spectra ==
    /\ \E df \in head_extract_mass_spectra(experiment) :
           run' = [run EXCEPT !.mass_df = df]
    /\ ret' = [fn |-> "extract_mass_spectra", value |-> run'.mass_df]
    /\ UNCHANGED <<experiment, peaks_api, noted, loaded, page_vars>>

\* eic_times, eic_intensities = extract_eic(experiment, target_mass,
\* tolerance); eic_fig is None when there is nothing to plot
Head_extract_eic(target_mass, tolerance) ==
    /\ Len(experiment.chromatograms) > 0
    /\ run.mass_df # Unbound
    /\ LET eic == head_extract_eic(experiment, target_mass, tolerance)
       IN  /\ ret' = [fn |-> "extract_eic", target_mass |-> target_mass,
                      tolerance |-> tolerance, value |-> eic]
           /\ run' = [run EXCEPT !.eic =
                         IF eic[1] = PyNone \/ eic[2] = PyNone \/ eic[1].items = <<>>
                         THEN PyNone ELSE Returned(eic)]
    /\ UNCHANGED <<experiment, peaks_api, noted, loaded, page_vars>>

\* if st.button("Generate PDF Report"): ...
Head_generate_report ==
    /\ run.eic # Unbound
    /\ \E exported \in BOOLEAN :
           LET call == head_generate_report(disk, kaleido_installed, exported,
                                            run.eic, run.mass_df)
           IN  /\ ret' = [fn |-> "generate_report",
                          write_image |-> call.write_image,
                          value |-> call.result]
               /\ run' = [run EXCEPT !.uncaught =
                             IF call.result.raised THEN call.result ELSE PyNone]
    /\ UNCHANGED <<experiment, peaks_api, noted, loaded, page_vars>>

HeadNext ==
    \/ Head_extract_mass_spectra
    \/ \E q \in EicQueries : Head_extract_eic(q[1], q[2])
    \/ Head_generate_report

HeadSpec == HeadInit /\ [][HeadNext]_vars

\* C13: availability of image export is decided at import time, and a
\* report generated while kaleido_available is false attempts no image
\* export and does not fail.
C13_NoExportWithoutKaleido ==
    (ret.fn = "generate_report" /\ run.kaleido_available = FALSE) =>
        /\ ret.write_image = <<>>
        /\ ~ret.value.raised

(***************************************************************************)
(* The report of an execution of app_stable.py                             *)
(***************************************************************************)
\* the execution has built a report
Reported == run.pdf_buffer # Unbound

\* the flowables of that report
ReportElements == run.pdf_buffer.elements

\* the places of the flowables of one kind
Places(what) ==
    { i \in 1 .. Len(ReportElements) : ReportElements[i].what = what }

\* C14: a report shows no logo but one the session that generated it has
\* uploaded: in a session that uploaded none, the report has neither a logo
\* nor a logo error.
C14_NoLogoFromOtherSession ==
    Reported =>
        /\ \A i \in Places("header_table") :
               ReportElements[i].data.logo_img \in session_logos
        /\ session_logos = {} => Places("Logo error") = {}

(***************************************************************************)
(* load_mzml_file statement by statement, called by two sessions whose     *)
(* executions overlap: both write and parse the one path temp.mzML.        *)
(***************************************************************************)
Invocations == {1, 2}

\* the bytes handed to load_mzml_file
FileBytes == { u.bytes : u \in MzmlUploads }

\* no call in progress
IdleLoad == [pc |-> "idle", file_bytes |-> Unbound, parsed |-> Unbound,
             result |-> Unbound, interleaved |-> FALSE]

LoadInit ==
    /\ experiment = Unbound
    /\ peaks_api = "tuple"
    /\ ret = NoCall
    /\ noted = NoCall
    /\ loaded = Unbound
    /\ disk = NoDisk
    /\ kaleido_installed = TRUE
    /\ widgets = DefaultWidgets
    /\ session_logos = {}
    /\ run = NoRun
    /\ loads = [i \in Invocations |-> IdleLoad]

\* the invocations after i has opened or written the file: every other one
\* that is between its own open and its own parse has been interleaved with
touched_by(i) ==
    [j \in Invocations |->
        IF j # i /\ loads[j].pc \in {"write", "parse"}
        THEN [loads[j] EXCEPT !.interleaved = TRUE]
        ELSE loads[j]]

\* load_mzml_file(file_bytes) is called
Load_call(i, file_bytes) ==
    /\ loads[i].pc \in {"idle", "returned"}
    /\ loads' = [loads EXCEPT ![i] = [IdleLoad EXCEPT !.pc = "open",
                                                      !.file_bytes = file_bytes]]
    /\ UNCHANGED <<experiment, peaks_api, ret, noted, loaded, disk,
                   kaleido_installed, widgets, session_logos, run>>

\* with open("temp.mzML", "wb") as f:
Load_open(i) ==
    /\ loads[i].pc = "open"
    /\ disk' = open_wb(disk, "temp.mzML")
    /\ loads' = [touched_by(i) EXCEPT ![i].pc = "write"]
    /\ UNCHANGED <<experiment, peaks_api, ret, noted, loaded,
                   kaleido_installed, widgets, session_logos, run>>

\* f.write(file_bytes), and the file closed
Load_write(i) ==
    /\ loads[i].pc = "write"
    /\ disk' = write(disk, "temp.mzML", loads[i].file_bytes)
    /\ loads' = [touched_by(i) EXCEPT ![i].pc = "parse"]
    /\ UNCHANGED <<experiment, peaks_api, ret, noted, loaded,
                   kaleido_installed, widgets, session_logos, run>>

\* mzml_file.load("temp.mzML", exp); return exp
Load_parse(i) ==
    /\ loads[i].pc = "parse"
    /\ loads' = [loads EXCEPT ![i].pc = "returned",
                              ![i].parsed = disk["temp.mzML"],
                              ![i].result = MzMLFile_load(disk, "temp.mzML")]
    /\ UNCHANGED <<experiment, peaks_api, ret, noted, loaded, disk,
                   kaleido_installed, widgets, session_logos, run>>

LoadNext ==
    \E i \in Invocations :
        \/ \E file_bytes \in FileBytes : Load_call(i, file_bytes)
        \/ Load_open(i)
        \/ Load_write(i)
        \/ Load_parse(i)

LoadSpec == LoadInit /\ [][LoadNext]_vars

\* what the reader makes of these bytes
parse_of(file_bytes) ==
    MzMLFile_load([NoDisk EXCEPT !["temp.mzML"] = file_bytes], "temp.mzML")

\* C15: an invocation of load_mzml_file that no other invocation's open or
\* write came between its own open and its own parse has parsed the bytes
\* it was passed; an interleaved one can have parsed the other's bytes (the
\* state C15_Witness).
C15_OwnBytesUnlessInterleaved ==
    \A i \in Invocations :
        (loads[i].pc = "returned" /\ ~loads[i].interleaved) =>
            /\ loads[i].parsed = loads[i].file_bytes
            /\ loads[i].result = parse_of(loads[i].file_bytes)

\* both have returned: the first, overwritten between its write and its
\* parse, parsed the second's different bytes and returned its experiment;
\* the second, not interleaved, parsed its own
C15_Witness ==
    /\ loads[1].pc = "returned" /\ loads[2].pc = "returned"
    /\ loads[1].interleaved /\ ~loads[2].interleaved
    /\ loads[1].file_bytes # loads[2].file_bytes
    /\ loads[1].parsed = loads[2].file_bytes
    /\ ~loads[1].result.raised
    /\ loads[1].result = parse_of(loads[2].file_bytes)
    /\ loads[2].parsed = loads[2].file_bytes

\* the embedded images of the plot exported to path, and the paragraphs
\* that stand for one whose export raised
Images(path) == { i \in Places("image") : ReportElements[i].data.path = path }
ImageErrors(path) == { i \in Places("image error") : ReportElements[i].data = path }

\* exactly one flowable of the kind
One(what) == Cardinality(Places(what)) = 1

\* C16: whenever create_pdf_report has been called it has returned a built
\* report, whatever the logo file, the exports and the peak table were: the
\* title (alone or beside the logo), the file line, both chromatogram
\* headings and the footer are there once each, the footer last; an absent
\* logo leaves the title alone, a logo that cannot be opened gives the
\* title and a logo error paragraph; each plot is an image or, when its
\* export raised, an error paragraph, and with export unavailable neither,
\* the total chromatogram getting the "not available" paragraph; the peak
\* table section is there iff the table is not empty.
C16_ReportAlwaysBuilt ==
    Called("create_pdf_report") =>
        /\ Reported /\ run.uncaught = PyNone
        /\ run.pdf_buffer.type = "pdf"
        /\ Cardinality(Places("title") \cup Places("header_table")) = 1
        /\ One("file") /\ One("TIC heading") /\ One("EIC heading")
        /\ One("footer")
        /\ ReportElements[Len(ReportElements)].what = "footer"
        /\ ~exists(disk, "temp_logo.png") =>
               One("title") /\ Places("Logo error") = {}
        /\ (exists(disk, "temp_logo.png") /\ disk["temp_logo.png"] = PngLogo) =>
               One("header_table") /\ Places("Logo error") = {}
        /\ (exists(disk, "temp_logo.png") /\ disk["temp_logo.png"] = CorruptLogo) =>
               One("title") /\ One("Logo error")
        /\ \A path \in {"temp_tic.png", "temp_eic.png"} :
               IF run.kaleido_available
               THEN Cardinality(Images(path) \cup ImageErrors(path)) = 1
               ELSE Images(path) = {} /\ ImageErrors(path) = {}
        /\ Places("no kaleido") # {} <=> ~run.kaleido_available
        /\ IF empty(run.mass_df)
           THEN Places("mass_table") = {} /\ Places("table heading") = {}
           ELSE /\ One("mass_table") /\ One("table heading")
                /\ \A i \in Places("mass_table") :
                       ReportElements[i].data = head(run.mass_df, HEAD_ROWS)

\* the hardest combination: the logo cannot be opened, both exports raise
\* and the peak table is empty, and the report is built all the same
C16_Witness ==
    /\ Reported
    /\ One("Logo error")
    /\ ImageErrors("temp_tic.png") # {} /\ ImageErrors("temp_eic.png") # {}
    /\ empty(run.mass_df)
    /\ One("title") /\ One("file") /\ One("footer")

\* the functions the execution has called so far, in order
CallsSoFar ==
    LET calls == SelectSeq(run.log, LAMBDA e : e.kind = "call")
    IN  [i \in 1 .. Len(calls) |-> calls[i].what]

\* the order of the calls in the main flow
FlowOrder ==
    << "load_mzml_file", "extract_chromatogram", "extract_mass_spectra",
       "extract_eic", "create_pdf_report" >>

\* the chromatogram of this execution is not None
TicFound == run.tic # Unbound /\ run.tic.value[1] # PyNone /\ run.tic.value[2] # PyNone

\* C17: in every execution of the main flow the calls made so far are an
\* initial part of load_mzml_file, extract_chromatogram,
\* extract_mass_spectra, extract_eic, create_pdf_report, and an execution
\* starts with nothing bound; load_mzml_file is called on the bytes of the
\* file in the uploader, and the experiment the later steps work on is the
\* parse of those bytes; extract_mass_spectra and extract_eic are called
\* only with a chromatogram that is not None, and their results are those
\* of this execution's experiment and of the target mass and tolerance now
\* in the inputs; create_pdf_report is called only with the button clicked
\* and after extract_eic, and its report carries that target mass and
\* tolerance.
C17_StepOrder ==
    /\ Len(CallsSoFar) <= Len(FlowOrder)
    /\ CallsSoFar = SubSeq(FlowOrder, 1, Len(CallsSoFar))
    /\ run.pc = "imports" => run = NewRun /\ experiment = Unbound
    /\ Called("load_mzml_file") =>
           /\ widgets.uploaded_file # PyNone
           /\ disk["temp.mzML"] = widgets.uploaded_file.bytes
    /\ Called("extract_chromatogram") =>
           /\ Returned(experiment) = parse_of(widgets.uploaded_file.bytes)
           /\ run.tic = Returned(extract_chromatogram(experiment))
    /\ Called("extract_mass_spectra") =>
           /\ TicFound
           /\ run.mass_df \in extract_mass_spectra(experiment)
    /\ Called("extract_eic") =>
           /\ TicFound
           /\ run.eic = [target_mass |-> widgets.target_mass,
                         tolerance |-> widgets.tolerance,
                         value |-> extract_eic(experiment, widgets.target_mass,
                                               widgets.tolerance)]
    /\ Called("create_pdf_report") =>
           /\ widgets.generate
           /\ Called("extract_eic")
           /\ \A i \in Places("EIC heading") \cup Places("details") :
                  ReportElements[i].data =
                      [target_mass |-> widgets.target_mass,
                       tolerance |-> widgets.tolerance]
           /\ \A i \in Images("temp_eic.png") :
                  ReportElements[i].data.fig = run.eic.value
    /\ (~widgets.generate \/ ~TicFound) => ~Reported

\* a later execution of a session (its logo was saved by an earlier one)
\* with the inputs changed from their defaults, all five calls made
C17_Witness ==
    /\ CallsSoFar = FlowOrder
    /\ widgets.logo_file = PyNone /\ session_logos # {}
    /\ exists(disk, "temp_logo.png")
    /\ <<widgets.target_mass, widgets.tolerance>> = ExampleQuery
    /\ Images("temp_eic.png") # {}

(***************************************************************************)
(* C18.  The three extraction functions only read the experiment: after    *)
(* any sequence of calls, with any target masses and tolerances, it is     *)
(* still the experiment as it was loaded (spectra, peaks and chromatogram  *)
(* records), and the value the last call returned is the one the function  *)
(* gives on the experiment as loaded.                                      *)
(***************************************************************************)
C18_ReadOnly ==
    /\ experiment = loaded
    /\ ret.fn = "extract_chromatogram" =>
           ret.value = extract_chromatogram(loaded)
    /\ ret.fn = "extract_mass_spectra" =>
           ret.value \in extract_mass_spectra(loaded)
    /\ ret.fn = "extract_eic" =>
           ret.value = extract_eic(loaded, ret.target_mass, ret.tolerance)

\* the top rows of a peak table are shown, so at least one extraction has
\* run, on a file whose spectra are not in ascending time and that has a
\* chromatogram record, and the file is as loaded
C18_Witness ==
    /\ ret.fn = "head"
    /\ Len(loaded.spectra) = 2
    /\ loaded.spectra[1].rt > loaded.spectra[2].rt
    /\ loaded.chromatograms # <<>>
    /\ experiment = loaded

(***************************************************************************)
(* C19.  As claimed of the HEAD side of app.py: the intensity extract_eic  *)
(* puts out for each spectrum is the sum of the intensities of all of that *)
(* spectrum's peaks within the tolerance window.                           *)
(***************************************************************************)
C19_HeadSumsAllMatches ==
    (IsEic /\ Len(TheSpectra) > 0) =>
        \A i \in 1 .. Len(TheSpectra) :
            EicIntensities[i] =
                WindowSum(TheSpectra[i], ret.target_mass, ret.tolerance)

(***************************************************************************)
(* C20.  As claimed of the HEAD side of app.py: the peak table of          *)
(* extract_mass_spectra has one row for every peak of every spectrum of    *)
(* the experiment, each row with its spectrum's retention time.            *)
(***************************************************************************)
C20_HeadFlattensAll ==
    ret.fn = "extract_mass_spectra" =>
        LET rows == ret.value.rows
        IN  /\ Len(rows) = Cardinality(PeakPlaces)
            /\ \A k \in 1 .. Len(rows) :
                   /\ "rt" \in DOMAIN rows[k]
                   /\ \E p \in PeakPlaces :
                          /\ rows[k].rt = TripleAt(p).rt
                          /\ rows[k].mz = TripleAt(p).mz
                          /\ rows[k].intensity = TripleAt(p).intensity

(***************************************************************************)
(* C21.  The times of the two chromatograms of one experiment.             *)
(***************************************************************************)
\* the experiment has a chromatogram record, so that extract_chromatogram
\* gives a chromatogram and the main flow goes on to extract_eic
BothProduced == IsEic /\ experiment.chromatograms # <<>>

\* the times extract_chromatogram returns for the experiment
TicTimes == extract_chromatogram(experiment)[1].items

\* C21, as claimed: for every experiment for which both are produced,
\* extract_eic returns as many points, at the same times and in the same
\* order, as extract_chromatogram.
C21_AlwaysAligned ==
    BothProduced => EicTimes = TicTimes

\* C21, amended: extract_eic returns one point per spectrum at the spectra's
\* retention times in their order, extract_chromatogram the times of the
\* first chromatogram record, so the two are aligned exactly when that
\* record's times are the spectra's retention times in order.
C21_AlignedWithPerSpectrumRecord ==
    BothProduced =>
        /\ EicTimes = SpectraTimes
        /\ TicTimes = experiment.chromatograms[1].rt
        /\ (EicTimes = TicTimes) <=> (SpectraTimes = experiment.chromatograms[1].rt)

\* a file whose first record has one point per spectrum: the two aligned
C21_Witness ==
    /\ BothProduced
    /\ Len(TheSpectra) >= 2
    /\ experiment.chromatograms[1].rt = SpectraTimes
    /\ EicTimes = TicTimes
    /\ \E i \in 1 .. Len(EicIntensities) : EicIntensities[i] = 0

(***************************************************************************)
(* C22.  With intensities that are not negative, extract_eic is monotone   *)
(* in the tolerance and bounded by the spectrum's total: of two calls on   *)
(* the same experiment with the same target mass, the one with the larger  *)
(* (or equal) tolerance returns at every index an intensity at least as    *)
(* large, and every intensity returned is at most the sum of all           *)
(* intensities of its spectrum.                                            *)
(***************************************************************************)
\* no intensity of the experiment is negative
NonNegative ==
    \A i \in 1 .. Len(TheSpectra) :
        \A j \in 1 .. Len(TheSpectra[i].intensity) : TheSpectra[i].intensity[j] >= 0

\* the call noted earlier and the call that has just returned have the same
\* target mass, the noted one the smaller or equal tolerance
NotedIsNarrower ==
    /\ IsEic
    /\ noted # NoCall
    /\ noted.call.target_mass = ret.target_mass
    /\ noted.call.tolerance <= ret.tolerance

C22_MonotoneAndBounded ==
    (IsEic /\ NonNegative) =>
        /\ \A i \in 1 .. Len(EicIntensities) :
               /\ i <= Len(TheSpectra)
               /\ EicIntensities[i] <= sum(TheSpectra[i].intensity)
        /\ NotedIsNarrower =>
               /\ Len(noted.call.value[2].items) = Len(EicIntensities)
               /\ \A i \in 1 .. Len(EicIntensities) :
                      noted.call.value[2].items[i] <= EicIntensities[i]

\* a narrower tolerance noted, a wider one now: a spectrum with two peaks
\* has gone from nothing to its total
C22_Witness ==
    /\ NotedIsNarrower
    /\ noted.call.tolerance < ret.tolerance
    /\ \E i \in 1 .. Len(EicIntensities) :
           /\ Len(TheSpectra[i].intensity) = 2
           /\ noted.call.value[2].items[i] = 0
           /\ EicIntensities[i] = sum(TheSpectra[i].intensity)

=============================================================================
